---- MODULE Spec2Model ----
(***************************************************************************)
(* Model of nba_api_ingest.py: the paginated fetch (fetch_nba_data), the   *)
(* key normalizer (standardize_keys_to_lowercase) and the run driver       *)
(* (__main__) with its stager (upload_to_gcs) and loader                   *)
(* (load_json_to_bigquery).                                                *)
(*                                                                         *)
(* JSON values are tagged tuples:                                          *)
(*   <<"num", n>>  <<"str", s>>  <<"null">>                                *)
(*   <<"list", <<v1, ..., vn>> >>                                          *)
(*   <<"dict", << <<k1, v1>>, ..., <<kn, vn>> >> >>   (insertion order,    *)
(*                                                     distinct keys)      *)
(***************************************************************************)
EXTENDS Integers, Sequences, FiniteSets, TLC

\* ------------------------------------------------------------------ bounds
\* Largest number of nodes (scalars, lists, dicts) of a normalizer input.
MaxNodes == 3
\* Largest page counter the model lets fetch_nba_data reach (the code has no cap).
MaxReq == 2
\* Largest page number a server writes into `pagination`.
MaxPageNo == 2
\* Largest page counter a fetch of the run driver reaches.
DriverMaxReq == 2
\* The wall clock runs from tick 0 to tick MaxClock,
MaxClock == 2
\* with TicksPerSecond clock readings in each second.
TicksPerSecond == 2

\* ------------------------------------------------------------- JSON values
Num(n) == <<"num", n>>
Str(s) == <<"str", s>>
Null == <<"null">>
List(elems) == <<"list", elems>>
Dict(items) == <<"dict", items>>

\* isinstance(v, dict) / isinstance(v, list)
IsDict(v) == v[1] = "dict"
IsList(v) == v[1] = "list"
IsStr(v) == v[1] = "str"
IsNum(v) == v[1] = "num"

Range(s) == {s[i] : i \in 1..Len(s)}
DictKeys(d) == {d[2][i][1] : i \in 1..Len(d[2])}
\* d[k] for a key the dict holds
DictGet(d, k) == LET i == CHOOSE j \in 1..Len(d[2]) : d[2][j][1] = k IN d[2][i][2]
\* d.get(k, default)
DictGetDefault(d, k, default) == IF k \in DictKeys(d) THEN DictGet(d, k) ELSE default

\* The mapping keys the normalizer is exercised on, and the strings they
\* lowercase to.
Keys == {"ID", "Id", "id", "X"}

\* str.swapcase(): a key function that is not idempotent.
SwapCase(k) ==
    CASE k = "ID" -> "id"
      [] k = "id" -> "ID"
      [] k = "Id" -> "iD"
      [] k = "iD" -> "Id"
      [] k = "X" -> "x"
      [] k = "x" -> "X"
      [] OTHER -> k

\* str.lower() on the keys of the model.
Lower(k) ==
    CASE k = "ID" -> "id"
      [] k = "Id" -> "id"
      [] k = "iD" -> "id"
      [] k = "X" -> "x"
      [] OTHER -> k

\* A dict store that keeps the first value of a key (dict.setdefault).
DictSetDefault(items, k, v) ==
    IF \E i \in 1..Len(items) : items[i][1] = k
    THEN items
    ELSE Append(items, <<k, v>>)

\* d[k] = v on the item sequence of a dict: an existing key keeps its place
\* and takes the new value, a new key goes last.
DictSetItem(items, k, v) ==
    IF \E i \in 1..Len(items) : items[i][1] = k
    THEN [i \in 1..Len(items) |-> IF items[i][1] = k THEN <<k, v>> ELSE items[i]]
    ELSE Append(items, <<k, v>>)

\* The dict built by a comprehension that yields `pairs` in order.
RECURSIVE DictFromPairs(_)
DictFromPairs(pairs) ==
    IF pairs = <<>> THEN <<>>
    ELSE LET n == Len(pairs) IN
         DictSetItem(DictFromPairs(SubSeq(pairs, 1, n - 1)), pairs[n][1], pairs[n][2])

RECURSIVE standardize_keys_to_lowercase(_)
standardize_keys_to_lowercase(data) ==
    IF IsDict(data)
    THEN Dict(DictFromPairs([i \in 1..Len(data[2]) |->
                 <<Lower(data[2][i][1]), standardize_keys_to_lowercase(data[2][i][2])>>]))
    ELSE IF IsList(data)
    THEN List([i \in 1..Len(data[2]) |-> standardize_keys_to_lowercase(data[2][i])])
    ELSE data

\* ------------------------------------------------ Python on JSON values
None == <<"None">>
\* A body that is not valid JSON (response.json() raises on it).
NotJson == <<"notjson">>

\* needle in hay, for the strings of the model.
IsSubstring(needle, hay) ==
    \/ hay = needle
    \/ <<needle, hay>> \in {<<"data", "no data">>, <<"pagination", "no pagination">>}

Bool(b) == IF b THEN "True" ELSE "False"

\* `key in container` for a str key: "True", "False", or "TypeError" when the
\* container is not iterable (a number, null).
py_contains(container, key) ==
    IF IsDict(container) THEN Bool(key \in DictKeys(container))
    ELSE IF IsList(container) THEN Bool(Str(key) \in Range(container[2]))
    ELSE IF IsStr(container) THEN Bool(IsSubstring(key, container[2]))
    ELSE "TypeError"

\* a < b on JSON values: numbers compare, null does not ("TypeError").
py_less(a, b) ==
    IF IsNum(a) /\ IsNum(b) THEN Bool(a[2] < b[2]) ELSE "TypeError"

\* --------------------------------------------------------- fetch_nba_data
\* response.raise_for_status(): raises HTTPError on 4xx and 5xx only.
raise_for_status(status_code) == 400 <= status_code /\ status_code < 600

\* The response was received, passed raise_for_status and parsed as JSON.
Parsed(o) ==
    /\ o.kind = "response"
    /\ ~raise_for_status(o.status_code)
    /\ o.body # NotJson

\* 'data' in json_response and isinstance(json_response['data'], list):
\* a list or a str that contains 'data' is subscripted with a str.
HasDataList(json_response) ==
    LET c == py_contains(json_response, "data") IN
    IF c # "True" THEN c
    ELSE IF ~IsDict(json_response) THEN "TypeError"
    ELSE Bool(IsList(DictGet(json_response, "data")))

\* 'pagination' in json_response and isinstance(json_response['pagination'], dict)
HasPagination(json_response) ==
    LET c == py_contains(json_response, "pagination") IN
    IF c # "True" THEN c
    ELSE IF ~IsDict(json_response) THEN "TypeError"
    ELSE Bool(IsDict(DictGet(json_response, "pagination")))

\* A list.extend that puts the new elements first.
extend_front(all_data, elems) == elems \o all_data

\* all_data.extend(elems)
extend(all_data, elems) == all_data \o elems

\* The fallback fires whenever nothing was collected yet.
first_page_fallback_any_page(page, all_data) == all_data = <<>>

\* page == 1 and not all_data
first_page_fallback(page, all_data) == page = 1 /\ all_data = <<>>

\* The body's records go to all_data (the branches on the body's shape).
Accumulate(json_response, page, all_data) ==
    IF HasDataList(json_response) = "True"
    THEN extend(all_data, DictGet(json_response, "data")[2])
    ELSE IF IsList(json_response)
    THEN extend(all_data, json_response[2])
    ELSE IF first_page_fallback(page, all_data)
    THEN Append(all_data, json_response)
    ELSE all_data

current_page_from_api(pagination) == DictGetDefault(pagination, "page", Num(1))
total_pages_from_api(pagination, current) == DictGetDefault(pagination, "pages", current)

\* A continuation test that also continues on the last page.
more_pages_le(current, total) ==
    IF IsNum(current) /\ IsNum(total) THEN Bool(current[2] <= total[2]) ELSE "TypeError"

\* current_page_from_api < total_pages_from_api
more_pages(current, total) == py_less(current, total)

\* What the except clauses return: the records collected so far.
except_return_partial(all_data) == List(all_data)

\* What the except clauses of fetch_nba_data return.
except_return(all_data) == None

\* One iteration of the while loop for the request's outcome o:
\*   ctl "while"  : has_more_pages stays True, page is the next page
\*   ctl "return" : the function returns ret
\*   ctl "raise"  : an exception no except clause catches leaves the function
FetchIter(page, all_data, o) ==
    LET failure == [ctl |-> "return", page |-> page, all_data |-> all_data,
                    ret |-> except_return(all_data)] IN
    IF o.kind = "ConnectionError" THEN failure
    ELSE IF raise_for_status(o.status_code) THEN failure
    ELSE IF o.body = NotJson THEN failure
    ELSE
      LET json_response == o.body IN
      IF HasDataList(json_response) = "TypeError"
      THEN [ctl |-> "raise", page |-> page, all_data |-> all_data, ret |-> None]
      ELSE
        LET collected == Accumulate(json_response, page, all_data)
            hp == HasPagination(json_response)
            uncaught == [ctl |-> "raise", page |-> page, all_data |-> collected,
                         ret |-> None]
            final == [ctl |-> "return", page |-> page, all_data |-> collected,
                      ret |-> List(collected)]
        IN
        IF hp = "TypeError" THEN uncaught
        ELSE IF hp = "False" THEN final
        ELSE
          LET pagination == DictGet(json_response, "pagination")
              current == current_page_from_api(pagination)
              total == total_pages_from_api(pagination, current)
              more == more_pages(current, total)
          IN
          IF more = "TypeError" THEN uncaught
          ELSE IF more = "True"
          THEN [ctl |-> "while", page |-> page + 1, all_data |-> collected,
                ret |-> None]
          ELSE final

\* ------------------------------------------------- bounded sets of values
NormScalars == {Num(1), Str("ID")}

\* Sequences of distinct keys, of length n.
RECURSIVE KeySeqs(_)
KeySeqs(n) ==
    IF n = 0 THEN {<<>>}
    ELSE UNION {{Append(ks, k) : k \in Keys \ Range(ks)} : ks \in KeySeqs(n - 1)}

RECURSIVE ValuesOfSize(_), Forests(_)
\* Sequences of values with n nodes in all.
Forests(n) ==
    IF n = 0 THEN {<<>>}
    ELSE UNION {{<<v>> \o f : v \in ValuesOfSize(m), f \in Forests(n - m)} : m \in 1..n}
\* The JSON values with exactly n nodes.
ValuesOfSize(n) ==
    (IF n = 1 THEN NormScalars ELSE {})
    \cup {List(f) : f \in Forests(n - 1)}
    \cup UNION {{Dict([i \in 1..Len(f) |-> <<ks[i], f[i]>>]) : ks \in KeySeqs(Len(f))}
                : f \in Forests(n - 1)}

\* ------------------------------------------- the server's possible answers
\* The records a page can hold: a scalar and a mapping.
Records == {Num(1), Dict(<< <<"ID", Num(2)>> >>)}
\* The lists of at most two elements of S.
Lists2(S) == {<<>>} \cup {<<x>> : x \in S} \cup {<<x, y>> : x \in S, y \in S}
PageLists == Lists2(Records)
PagValues == {Num(n) : n \in 1..MaxPageNo}
\* A field that is absent or holds one of vals.
Field(k, vals) == {<<>>} \cup {<< <<k, v>> >> : v \in vals}
Paginations == {Dict(p \o q) : p \in Field("page", PagValues), q \in Field("pages", PagValues)}
DataFields ==
    {<< <<"x", Num(1)>> >>, << <<"data", Str("n/a")>> >>}
    \cup {<< <<"data", List(l)>> >> : l \in PageLists}
PagFields == Field("pagination", Paginations \cup {Str("none")})
DictBodies == {Dict(d \o p) : d \in DataFields, p \in PagFields}
BareLists == {List(l) : l \in Lists2(Records \cup {Str("data"), Str("pagination")})}
ScalarBodies == {Num(7), Str("ok"), Str("no data"), Null}
Bodies == DictBodies \cup BareLists \cup ScalarBodies
StatusCodes == {200, 300, 404, 500}
Responses(bodies) ==
    UNION {{[kind |-> "response", status_code |-> c, body |-> b] :
               b \in IF raise_for_status(c) THEN {NotJson} ELSE bodies \cup {NotJson}}
           : c \in StatusCodes}
Outcomes == {[kind |-> "ConnectionError"]} \cup Responses(Bodies)

\* The JSON values with at most n nodes.
JsonValues(n) == UNION {ValuesOfSize(m) : m \in 1..n}

\* ------------------------------------------------------------ run driver
Runs == {"r1", "r2"}

GCS_BUCKET_NAME == "bucket"

\* The four blocks of __main__: endpoint, destination table, the logical name
\* in the object key, and whether the block normalizes the keys.
Endpoints == <<
    [endpoint |-> "/api/games", table |-> "api_games_raw",
     name |-> "games", normalize |-> FALSE],
    [endpoint |-> "/api/playertotals", table |-> "api_playertotals_raw",
     name |-> "playertotals", normalize |-> FALSE],
    [endpoint |-> "/api/playeradvancedstats", table |-> "api_playeradvancedstats_raw",
     name |-> "playeradvancedstats", normalize |-> FALSE],
    [endpoint |-> "/api/playershotchart", table |-> "api_playershotchart_raw",
     name |-> "playershotchart", normalize |-> TRUE] >>


\* A timestamp format without the seconds ("%Y%m%d_%H%M").
strftime_minutes(t) == t \div (TicksPerSecond * 60)

\* datetime.datetime.now().strftime("%Y%m%d_%H%M%S"): the clock reading cut
\* to whole seconds.
strftime(t) == t \div TicksPerSecond

\* f"nba_api_{name}_data_{timestamp}.json"
gcs_filename(name, stamp) == <<"nba_api_", name, "_data_", stamp, ".json">>

\* f"gs://{bucket_name}/{filename}"
gcs_uri(bucket_name, file) == <<"gs://", bucket_name, "/", file>>

\* The blob upload_to_gcs writes: one line per record of a list, else one line.
ndjson(d) == IF IsList(d) THEN <<"lines", d[2]>> ELSE <<"lines", <<d>> >>

\* `if x is not None:`
is_not_none(x) == x # None

\* `if x:` for x None or a list
truthy(x) == x # None /\ x[2] # <<>>

\* An else branch that ends the script (exit()).
else_branch_exit == "exit"

\* The else branches of a block ("No ... data found", "Failed to upload ..."):
\* a print, and control falls to the end of the block.
else_branch == "end"

\* What the fetches of the run driver are answered with.
DriverRecord == Dict(<< <<"ID", Num(2)>> >>)
DriverBodies == {
    Dict(<< <<"data", List(<<>>)>>,
            <<"pagination", Dict(<< <<"page", Num(1)>>, <<"pages", Num(2)>> >>)>> >>),
    Dict(<< <<"data", List(<<DriverRecord>>)>> >>),
    Dict(<< <<"data", List(<<>>)>> >>),
    Num(7) }
DriverOutcomes ==
    {[kind |-> "ConnectionError"]}
    \cup {[kind |-> "response", status_code |-> 200, body |-> b] : b \in DriverBodies}

\* ---------------------------------------------------------------- state
VARIABLES
    npc,      \* normalizer harness: "start", "once", "twice"
    nv,       \* the value handed to standardize_keys_to_lowercase
    nres,     \* its result
    nres2     \* the result of normalizing nres again

VARIABLES
    fpc,        \* fetch_nba_data: "idle", "while" (loop head), "returned", "raised"
    page,       \* its page counter
    all_data,   \* its accumulated records
    ret,        \* its return value: None or List(records)
    requests,   \* the page parameters of the requests issued, in order
    last,       \* the outcome of the last request
    served,     \* the `data` lists of the parsed responses, in order
    regular,    \* every answer so far was {data: [...], pagination: {page: i, pages: N}}
    announced   \* that N (0 before the first answer)

VARIABLES
    pc,         \* per run: "idle", "auth", "create_dataset", "fetch", "stamp",
                \*          "upload", "load", "complete", "exit", "crashed"
    ep,         \* per run: index in Endpoints of the block being executed
    dpage,      \* per run: page counter of the fetch in progress
    dall,       \* per run: all_data of the fetch in progress
    data,       \* per run: what the block's fetch returned
    read_at,    \* per run: the clock reading the timestamp was made from
    filename,   \* per run: the block's gcs_*_filename
    staged,     \* per run: the data handed to upload_to_gcs
    uri,        \* per run: the block's gcs_*_uri
    now,        \* the wall clock, in ticks
    bucket,     \* the object store: object key -> blob
    visited,    \* per run: the endpoint blocks entered so far, in order
    calls,      \* per run: the Stager and Loader calls of the current block, in order
    wrote       \* per run: <<block, object key, second of the clock reading>> of
                \*          each upload done

normVars == <<npc, nv, nres, nres2>>
driverVars == <<pc, ep, dpage, dall, data, read_at, filename, staged, uri, now,
                bucket, visited, calls, wrote>>
fetchVars == <<fpc, page, all_data, ret, requests, last, served, regular, announced>>
vars == <<normVars, fetchVars, driverVars>>

Unset == <<"unset">>

NormIdle ==
    /\ npc = "idle"
    /\ nv = Unset
    /\ nres = Unset
    /\ nres2 = Unset

FetchIdle ==
    /\ fpc = "idle"
    /\ page = 1
    /\ all_data = <<>>
    /\ ret = Unset
    /\ requests = <<>>
    /\ last = [kind |-> "none"]
    /\ served = <<>>
    /\ regular = TRUE
    /\ announced = 0

\* ------------------------------------------------------------ run driver
DriverInit(started) ==
    /\ pc = [r \in Runs |-> IF r \in started THEN "auth" ELSE "idle"]
    /\ ep = [r \in Runs |-> 0]
    /\ dpage = [r \in Runs |-> 1]
    /\ dall = [r \in Runs |-> <<>>]
    /\ data = [r \in Runs |-> Unset]
    /\ read_at = [r \in Runs |-> 0]
    /\ filename = [r \in Runs |-> Unset]
    /\ staged = [r \in Runs |-> Unset]
    /\ uri = [r \in Runs |-> Unset]
    /\ now = 0
    /\ bucket = <<>>
    /\ visited = [r \in Runs |-> <<>>]
    /\ calls = [r \in Runs |-> <<>>]
    /\ wrote = [r \in Runs |-> <<>>]

DriverIdle == DriverInit({})

\* One run of the script.
InitDriver == DriverInit({"r1"}) /\ NormIdle /\ FetchIdle

\* Two runs of the script at the same time, on one clock and one bucket.
InitRuns == DriverInit(Runs) /\ NormIdle /\ FetchIdle

\* Run r enters block e: the block's own variables are not assigned yet and
\* its fetch_nba_data starts (all_data = [], page = 1).
EnterBlock(r, e) ==
    /\ pc' = [pc EXCEPT ![r] = "fetch"]
    /\ ep' = [ep EXCEPT ![r] = e]
    /\ dpage' = [dpage EXCEPT ![r] = 1]
    /\ dall' = [dall EXCEPT ![r] = <<>>]
    /\ data' = [data EXCEPT ![r] = Unset]
    /\ filename' = [filename EXCEPT ![r] = Unset]
    /\ staged' = [staged EXCEPT ![r] = Unset]
    /\ uri' = [uri EXCEPT ![r] = Unset]
    /\ read_at' = [read_at EXCEPT ![r] = 0]
    /\ visited' = [visited EXCEPT ![r] = Append(@, e)]
    /\ calls' = [calls EXCEPT ![r] = <<>>]

\* gcp_credentials = authenticate_gcp(); without credentials the script exits.
Authenticate(r, ok) ==
    /\ pc[r] = "auth"
    /\ pc' = [pc EXCEPT ![r] = IF ok THEN "create_dataset" ELSE "exit"]
    /\ UNCHANGED <<ep, dpage, dall, data, read_at, filename, staged, uri,
                   now, bucket, visited, calls, wrote>>

\* create_bigquery_dataset_if_not_exists returns (the dataset was found, was
\* created, or the error was printed), or an exception leaves it (the client
\* constructor, an error without a `code`, a failing create_dataset). Then the
\* first block.
CreateDataset(r, returns) ==
    /\ pc[r] = "create_dataset"
    /\ IF returns
       THEN EnterBlock(r, 1)
       ELSE /\ pc' = [pc EXCEPT ![r] = "crashed"]
            /\ UNCHANGED <<ep, dpage, dall, data, read_at, filename, staged, uri,
                           visited, calls>>
    /\ UNCHANGED <<now, bucket, wrote>>

\* One iteration of the block's fetch_nba_data for the outcome o of its
\* request; on its return, the test `if nba_..._data:` of the block.
DriverFetch(r, o) ==
    /\ pc[r] = "fetch"
    /\ \E f \in {FetchIter(dpage[r], dall[r], o)} :
       /\ f.ctl = "while" => dpage[r] < DriverMaxReq
       /\ dpage' = [dpage EXCEPT ![r] = IF f.ctl = "while" THEN f.page ELSE 1]
       /\ dall' = [dall EXCEPT ![r] = IF f.ctl = "while" THEN f.all_data ELSE <<>>]
       /\ data' = [data EXCEPT ![r] = IF f.ctl = "return" THEN f.ret ELSE @]
       /\ pc' = [pc EXCEPT ![r] =
                    CASE f.ctl = "while" -> "fetch"
                      [] f.ctl = "raise" -> "crashed"
                      [] f.ctl = "return" ->
                           IF truthy(f.ret) THEN "stamp" ELSE else_branch]
    /\ UNCHANGED <<ep, read_at, filename, staged, uri, now, bucket, visited,
                   calls, wrote>>

\* timestamp = datetime.datetime.now().strftime(...); the block's filename;
\* in the shot chart block, first the key normalization of the data.
Stamp(r) ==
    /\ pc[r] = "stamp"
    /\ read_at' = [read_at EXCEPT ![r] = now]
    /\ filename' = [filename EXCEPT ![r] =
                       gcs_filename(Endpoints[ep[r]].name, strftime(now))]
    /\ staged' = [staged EXCEPT ![r] =
                     IF Endpoints[ep[r]].normalize
                     THEN standardize_keys_to_lowercase(data[r])
                     ELSE data[r]]
    /\ pc' = [pc EXCEPT ![r] = "upload"]
    /\ UNCHANGED <<ep, dpage, dall, data, uri, now, bucket, visited, calls,
                   wrote>>

\* upload_to_gcs(credentials, data, bucket_name, filename): the blob is written
\* under the key `filename`, replacing an object of that key, and the locator
\* is returned; or the store fails and None is returned, and the block ends.
Upload(r, ok) ==
    /\ pc[r] = "upload"
    /\ calls' = [calls EXCEPT ![r] = Append(@, <<"stage", filename[r]>>)]
    /\ IF ok
       THEN /\ bucket' = [k \in DOMAIN bucket \cup {filename[r]} |->
                             IF k = filename[r] THEN ndjson(staged[r]) ELSE bucket[k]]
            /\ uri' = [uri EXCEPT ![r] = gcs_uri(GCS_BUCKET_NAME, filename[r])]
            /\ wrote' = [wrote EXCEPT ![r] =
                            Append(@, <<ep[r], filename[r], read_at[r] \div TicksPerSecond>>)]
            /\ pc' = [pc EXCEPT ![r] = "load"]
       ELSE /\ uri' = [uri EXCEPT ![r] = None]
            /\ pc' = [pc EXCEPT ![r] = else_branch]
            /\ UNCHANGED <<bucket, wrote>>
    /\ UNCHANGED <<ep, dpage, dall, data, read_at, filename, staged, now,
                   visited>>

\* How a call of load_json_to_bigquery ends.
LoadResults == {"True", "False", "raise"}

\* load_json_to_bigquery(credentials, gcs_uri, dataset_id, table_id): the load
\* job for the block's table runs to its end and True is returned, or it fails
\* and False is returned; either way a line is printed and the block ends. The
\* client, the table reference and the job configuration are built before the
\* try: an exception there ("raise") leaves the function and the script.
Load(r, result) ==
    /\ pc[r] = "load"
    /\ calls' = [calls EXCEPT ![r] =
                    Append(@, <<"load", uri[r], Endpoints[ep[r]].table>>)]
    /\ pc' = [pc EXCEPT ![r] = IF result = "raise" THEN "crashed" ELSE "end"]
    /\ UNCHANGED <<ep, dpage, dall, data, read_at, filename, staged, uri,
                   now, bucket, visited, wrote>>

\* The end of a block: the next block starts, or after the last one the final
\* "complete" line is printed.
NextBlock(r) ==
    /\ pc[r] = "end"
    /\ IF ep[r] < Len(Endpoints)
       THEN EnterBlock(r, ep[r] + 1)
       ELSE /\ pc' = [pc EXCEPT ![r] = "complete"]
            /\ UNCHANGED <<ep, dpage, dall, data, read_at, filename, staged, uri, visited, calls>>
    /\ UNCHANGED <<now, bucket, wrote>>

\* The wall clock advances.
Tick ==
    /\ now < MaxClock
    /\ now' = now + 1
    /\ UNCHANGED <<pc, ep, dpage, dall, data, read_at, filename, staged,
                   uri, bucket, visited, calls, wrote>>
    /\ UNCHANGED <<normVars, fetchVars>>

\* A step of run r.
RunStep(r) ==
    /\ \/ \E ok \in BOOLEAN : Authenticate(r, ok)
       \/ \E returns \in BOOLEAN : CreateDataset(r, returns)
       \/ \E o \in DriverOutcomes : DriverFetch(r, o)
       \/ Stamp(r)
       \/ \E ok \in BOOLEAN : Upload(r, ok)
       \/ \E result \in LoadResults : Load(r, result)
       \/ NextBlock(r)
    /\ UNCHANGED <<normVars, fetchVars>>

NextDriver ==
    \/ \E r \in Runs : RunStep(r)
    \/ Tick

\* One run of the script.
SpecDriver == InitDriver /\ [][NextDriver]_vars
\* One run of the script that keeps running: a step it can take, it takes.
LiveDriver == SpecDriver /\ \A r \in Runs : WF_vars(RunStep(r))
\* Two runs at the same time.
SpecRuns == InitRuns /\ [][NextDriver]_vars

\* ------------------------------------------------- normalizer harness
InitNorm ==
    /\ npc = "start"
    /\ nv \in JsonValues(MaxNodes)
    /\ nres = Unset
    /\ nres2 = Unset
    /\ FetchIdle
    /\ DriverIdle

Normalize ==
    /\ npc = "start"
    /\ nres' = standardize_keys_to_lowercase(nv)
    /\ npc' = "once"
    /\ UNCHANGED <<nv, nres2, fetchVars, driverVars>>

NormalizeAgain ==
    /\ npc = "once"
    /\ nres2' = standardize_keys_to_lowercase(nres)
    /\ npc' = "twice"
    /\ UNCHANGED <<nv, nres, fetchVars, driverVars>>

NextNorm == Normalize \/ NormalizeAgain

SpecNorm == InitNorm /\ [][NextNorm]_vars

\* ------------------------------------------------ one call of fetch_nba_data
\* The answer to request number i is data-list-and-pagination {page: i, pages: n}.
Conforms(o, i, n) ==
    /\ Parsed(o)
    /\ o.status_code = 200
    /\ IsDict(o.body)
    /\ HasDataList(o.body) = "True"
    /\ HasPagination(o.body) = "True"
    /\ DictGet(o.body, "pagination") = Dict(<< <<"page", Num(i)>>, <<"pages", Num(n)>> >>)
    /\ i <= n

\* all_data = []; page = 1; has_more_pages = True
InitFetch ==
    /\ fpc = "while"
    /\ page = 1
    /\ all_data = <<>>
    /\ ret = Unset
    /\ requests = <<>>
    /\ last = [kind |-> "none"]
    /\ served = <<>>
    /\ regular = TRUE
    /\ announced = 0
    /\ NormIdle
    /\ DriverIdle

\* One iteration of the while loop: the request for `page` and the handling
\* of its outcome o, up to the next loop head, the return or the escape of an
\* exception.
FetchStep(o) ==
    /\ fpc = "while"
    /\ \E r \in {FetchIter(page, all_data, o)} :
       \E ns \in {{n \in 1..MaxPageNo : Conforms(o, Len(requests) + 1, n)}} :
       /\ r.ctl = "while" => page < MaxReq
       /\ requests' = Append(requests, page)
       /\ last' = o
       /\ page' = r.page
       /\ all_data' = r.all_data
       /\ fpc' = CASE r.ctl = "while" -> "while"
                   [] r.ctl = "return" -> "returned"
                   [] r.ctl = "raise" -> "raised"
       /\ ret' = IF r.ctl = "return" THEN r.ret ELSE ret
       /\ served' = IF Parsed(o) /\ HasDataList(o.body) = "True"
                    THEN Append(served, DictGet(o.body, "data")[2])
                    ELSE served
       /\ regular' = (regular /\ \E n \in ns : announced \in {0, n})
       /\ announced' = IF announced = 0 /\ ns # {}
                       THEN CHOOSE n \in ns : TRUE
                       ELSE announced
    /\ UNCHANGED <<normVars, driverVars>>

NextFetch == \E o \in Outcomes : FetchStep(o)

SpecFetch == InitFetch /\ [][NextFetch]_vars

\* ------------------------------------------------------ claims on the fetch
RECURSIVE Flatten(_)
\* The concatenation of a sequence of lists.
Flatten(ls) == IF ls = <<>> THEN <<>> ELSE Head(ls) \o Flatten(Tail(ls))

UpTo(n) == [i \in 1..n |-> i]

\* C1: when every answer so far is {data: [...], pagination: {page: i, pages: N}}
\* for its request number i and one N, the requests issued are pages 1, 2, ...
\* in order, at most N of them; the function never fails or raises; and when it
\* has returned, exactly the N requests 1..N were issued and the result is the
\* concatenation of the N data lists in page order.
C1_RegularPagesConcatenated ==
    (regular /\ requests # <<>>) =>
        /\ requests = UpTo(Len(requests))
        /\ Len(requests) <= announced
        /\ fpc \in {"while", "returned"}
        /\ fpc = "while" => (Len(requests) < announced /\ page = Len(requests) + 1)
        /\ fpc = "returned" =>
              /\ requests = UpTo(announced)
              /\ Len(served) = announced
              /\ ret = List(Flatten(served))

\* C1 witness: a regular fetch of MaxReq pages returned; its pages hold two
\* different records each, in different orders.
C1_Witness ==
    /\ regular /\ fpc = "returned" /\ announced = MaxReq
    /\ \A i \in 1..Len(served) : Len(served[i]) = 2 /\ served[i][1] # served[i][2]
    /\ served[1] # served[2]

\* The request failed as the claim has it: connection error, non-2xx status,
\* or a body that is not valid JSON.
FailedNon2xx(o) ==
    \/ o.kind = "ConnectionError"
    \/ o.kind = "response" /\ ~(200 <= o.status_code /\ o.status_code < 300)
    \/ o.kind = "response" /\ o.body = NotJson

\* The request failed: connection error, 4xx or 5xx status, or a body that is
\* not valid JSON.
Failed(o) ==
    \/ o.kind = "ConnectionError"
    \/ o.kind = "response" /\ 400 <= o.status_code /\ o.status_code < 600
    \/ o.kind = "response" /\ o.body = NotJson

\* C2 as stated: after a request that ended in a connection error, a non-2xx
\* status or an unparseable body, the function has returned None, having
\* requested each page 1..k once.
C2_Original ==
    FailedNon2xx(last) =>
        /\ fpc = "returned"
        /\ ret = None
        /\ requests = UpTo(Len(requests))

\* C2 amended: after a request that ended in a connection error, a 4xx or 5xx
\* status or an unparseable body, the function has returned None (not the
\* records of the earlier pages), and the requests issued are pages 1..k, each
\* once, the failed one last.
C2_FailureReturnsNone ==
    Failed(last) =>
        /\ fpc = "returned"
        /\ ret = None
        /\ requests = UpTo(Len(requests))

\* C2 witness: the request for the last page failed after pages that brought
\* records.
C2_Witness ==
    /\ Failed(last) /\ Len(requests) = MaxReq /\ all_data # <<>> /\ fpc = "returned"

\* The parsed body lacks pagination metadata: no `pagination` field, or a
\* pagination without `page` or without `pages`.
MissingPagination(body) ==
    \/ ~IsDict(body)
    \/ "pagination" \notin DictKeys(body)
    \/ ~IsDict(DictGet(body, "pagination"))
    \/ "page" \notin DictKeys(DictGet(body, "pagination"))
    \/ "pages" \notin DictKeys(DictGet(body, "pagination"))

\* The parsed body has a pagination mapping with `pages` and without `page`.
LacksOnlyPage(body) ==
    /\ IsDict(body)
    /\ "pagination" \in DictKeys(body)
    /\ IsDict(DictGet(body, "pagination"))
    /\ "page" \notin DictKeys(DictGet(body, "pagination"))
    /\ "pages" \in DictKeys(DictGet(body, "pagination"))

\* C3 as stated: a parsed response that lacks pagination metadata is the final
\* page: the loop does not go on to another request.
C3_Original ==
    (Parsed(last) /\ MissingPagination(last.body)) => fpc # "while"

\* C3 amended: a parsed response with no `pagination` mapping, or whose
\* pagination lacks `pages`, is the final page; a pagination that has `pages`
\* and lacks `page` is read as page 1, so the loop goes on to the next page
\* exactly when pages > 1.
C3_MissingPaginationFinal ==
    Parsed(last) =>
        /\ (MissingPagination(last.body) /\ ~LacksOnlyPage(last.body)) => fpc # "while"
        /\ LacksOnlyPage(last.body) =>
              (fpc = "while" <=> DictGet(DictGet(last.body, "pagination"), "pages")[2] > 1)

\* C3 witness: a second-page answer that carries records and `page` but no
\* `pages` ended the fetch.
C3_Witness ==
    /\ Parsed(last) /\ Len(requests) = 2 /\ fpc = "returned"
    /\ IsDict(last.body)
    /\ "pagination" \in DictKeys(last.body)
    /\ IsDict(DictGet(last.body, "pagination"))
    /\ DictKeys(DictGet(last.body, "pagination")) = {"page"}
    /\ DictGet(DictGet(last.body, "pagination"), "page") = Num(1)
    /\ HasDataList(last.body) = "True"

\* The parsed body is a single object with no `data` list.
BareObject(o) ==
    /\ Parsed(o)
    /\ IsDict(o.body)
    /\ HasDataList(o.body) = "False"

\* C4: a step that receives a bare object appends the whole body as one record
\* when it is the first request (page counter 1, dataset empty) and leaves the
\* dataset as it was on every later request, empty or not.
C4_BareObjectFirstPageOnly ==
    [][(requests' # requests /\ BareObject(last')) =>
          IF requests = <<>>
          THEN page = 1 /\ all_data = <<>> /\ all_data' = <<last'.body>>
          ELSE page > 1 /\ all_data' = all_data]_vars

\* C4 witness: a bare object arrived on a later page while the dataset was
\* still empty, and nothing was appended.
C4_Witness ==
    /\ Len(requests) >= 2 /\ BareObject(last) /\ all_data = <<>>

\* C10 as stated: no fault escapes fetch_nba_data (it ends with a Dataset or
\* None), and a bare-sequence body has its elements appended.
C10_NoFaultEscapes ==
    /\ fpc # "raised"
    /\ (Parsed(last) /\ IsList(last.body) /\ Len(requests) = 1) =>
           all_data = last.body[2]

\* ------------------------------------------------- claims on the run driver
\* x is a non-empty Dataset (not Unset, not None, not []).
NonEmptyDataset(x) == x # Unset /\ x # None /\ x[2] # <<>>

\* C5: a run that has started its first block goes on, whatever the outcomes
\* of the blocks (fetch failure, empty dataset, stager failure, loader failure,
\* success), to enter every one of the four blocks in order and to reach the
\* final "complete" step, unless an exception leaves the script (out of a
\* fetch, or out of the loader before its try).
C5_AllEndpointsAttempted ==
    \A r \in Runs :
        (pc[r] = "fetch" /\ ep[r] = 1) ~>
            \/ pc[r] = "crashed"
            \/ pc[r] = "complete" /\ visited[r] = UpTo(Len(Endpoints))

\* C5 witness: the run is complete, having staged an object in the last block
\* only: the earlier blocks staged nothing and did not stop it.
C5_Witness ==
    /\ pc["r1"] = "complete"
    /\ visited["r1"] = UpTo(Len(Endpoints))
    /\ Len(wrote["r1"]) = 1
    /\ wrote["r1"][1][1] = Len(Endpoints)

\* C6: in every run the blocks are entered once each, in order, and within a
\* block the Stager is called at most once and only with a non-empty Dataset
\* the block's fetch returned; the Loader is called at most once, only after
\* the Stager returned a locator, with exactly that locator and the block's
\* table; after a fetch that returned None or [] neither is called, and after
\* a Stager failure the Loader is not called.
C6_StagerThenLoader ==
    \A r \in Runs :
        /\ visited[r] = UpTo(ep[r])
        /\ Len(calls[r]) <= 2
        /\ pc[r] = "fetch" => calls[r] = <<>>
        /\ (ep[r] >= 1 /\ ~NonEmptyDataset(data[r])) => calls[r] = <<>>
        /\ Len(calls[r]) >= 1 =>
              /\ calls[r][1] = <<"stage", filename[r]>>
              /\ NonEmptyDataset(data[r])
              /\ uri[r] \in {None, gcs_uri(GCS_BUCKET_NAME, filename[r])}
        /\ (Len(calls[r]) >= 1 /\ uri[r] = None) => Len(calls[r]) = 1
        /\ Len(calls[r]) = 2 =>
              /\ uri[r] = gcs_uri(GCS_BUCKET_NAME, calls[r][1][2])
              /\ calls[r][2] = <<"load", uri[r], Endpoints[ep[r]].table>>

\* C6 witness: in the last block, after three blocks that came before, the
\* Stager and then the Loader have been called.
C6_Witness ==
    /\ ep["r1"] = Len(Endpoints)
    /\ Len(calls["r1"]) = 2
    /\ pc["r1"] = "end"

\* C7 as stated: two runs never write the same object key for one endpoint.
C7_Original ==
    \A r1, r2 \in Runs :
        r1 # r2 =>
            \A i \in 1..Len(wrote[r1]), j \in 1..Len(wrote[r2]) :
                wrote[r1][i][1] = wrote[r2][j][1] => wrote[r1][i][2] # wrote[r2][j][2]

\* C7 amended: the keys two runs write for one endpoint differ exactly when
\* the runs read the clock in different seconds; when both read the same
\* second they write the same key. Keys of different endpoints always differ,
\* and every key written is in the bucket.
C7_KeysDifferAcrossSeconds ==
    \A r1, r2 \in Runs :
        \A i \in 1..Len(wrote[r1]), j \in 1..Len(wrote[r2]) :
            /\ wrote[r1][i][2] \in DOMAIN bucket
            /\ wrote[r1][i][1] # wrote[r2][j][1] => wrote[r1][i][2] # wrote[r2][j][2]
            /\ (r1 # r2 /\ wrote[r1][i][1] = wrote[r2][j][1]) =>
                  (wrote[r1][i][2] = wrote[r2][j][2] <=> wrote[r1][i][3] = wrote[r2][j][3])

\* C7 witness: the two runs staged the same endpoint in different seconds, and
\* another endpoint in the same second.
C7_Witness ==
    /\ \E i \in 1..Len(wrote["r1"]), j \in 1..Len(wrote["r2"]) :
          /\ wrote["r1"][i][1] = wrote["r2"][j][1]
          /\ wrote["r1"][i][3] # wrote["r2"][j][3]
    /\ \E i \in 1..Len(wrote["r1"]), j \in 1..Len(wrote["r2"]) :
          /\ wrote["r1"][i][1] = wrote["r2"][j][1]
          /\ wrote["r1"][i][3] = wrote["r2"][j][3]

\* ------------------------------------------------ claims on the normalizer
RECURSIVE WellFormed(_)
\* v is a JSON value: a scalar, a list of JSON values, or a dict of distinct
\* keys and JSON values.
WellFormed(v) ==
    IF v[1] \in {"num", "str", "null"} THEN TRUE
    ELSE IF v[1] = "list" THEN \A i \in 1..Len(v[2]) : WellFormed(v[2][i])
    ELSE IF v[1] = "dict"
    THEN /\ \A i, j \in 1..Len(v[2]) : v[2][i][1] = v[2][j][1] => i = j
         /\ \A i \in 1..Len(v[2]) : WellFormed(v[2][i][2])
    ELSE FALSE

\* C8: for every value of mappings, sequences and scalars the normalizer
\* returns a JSON value, and normalizing that result again gives the same
\* result.
C8_NormalizeIdempotent ==
    /\ npc \in {"once", "twice"} => WellFormed(nres)
    /\ npc = "twice" => nres2 = nres

\* C8 witness: a list that holds a mapping with a key that is not lowercase
\* was normalized twice.
C8_Witness ==
    /\ npc = "twice"
    /\ IsList(nv)
    /\ nres # nv
    /\ \E i \in 1..Len(nv[2]) : IsDict(nv[2][i]) /\ Len(nv[2][i][2]) = 1

\* The last position of the item sequence whose key lowercases to k.
LastWithKey(items, k) ==
    CHOOSE i \in 1..Len(items) :
        /\ Lower(items[i][1]) = k
        /\ \A j \in 1..Len(items) : Lower(items[j][1]) = k => j <= i

\* C9: the output of the normalizer for a mapping holds exactly one entry for
\* each lowercased key of the source, and its value is the normalized value of
\* the last source item, in insertion order, whose key lowercases to it.
C9_LastCollidingKeyWins ==
    (npc \in {"once", "twice"} /\ IsDict(nv)) =>
        /\ IsDict(nres)
        /\ DictKeys(nres) = {Lower(k) : k \in DictKeys(nv)}
        /\ \A i, j \in 1..Len(nres[2]) : nres[2][i][1] = nres[2][j][1] => i = j
        /\ \A i \in 1..Len(nres[2]) :
              nres[2][i][2] =
                  standardize_keys_to_lowercase(nv[2][LastWithKey(nv[2], nres[2][i][1])][2])

\* C9 witness: two keys of the source collapse to one; the first and the last
\* of them hold different values.
C9_Witness ==
    /\ npc = "once"
    /\ IsDict(nv)
    /\ Len(nv[2]) = 2
    /\ Len(nres[2]) = 1
    /\ nv[2][1][2] # nv[2][2][2]

====
